---- MODULE Spec2Model ----
(***************************************************************************)
(* Model of podaac/generate_uploader.                                      *)
(*                                                                         *)
(*   Spec        License.return_licenses run by several processes against  *)
(*               one Parameter Store prefix (src/uploader/License.py).     *)
(*               One action is one SSM call together with the local code   *)
(*               that follows it up to the next SSM call.                  *)
(*   UploadSpec  one run of Uploader.upload (src/uploader/Uploader.py):    *)
(*               the upload loop and the publish loop advance one file     *)
(*               per step.                                                 *)
(***************************************************************************)
EXTENDS Integers, Sequences, FiniteSets, TLC

(***************************************************************************)
(* Bounds                                                                  *)
(***************************************************************************)
NumRuns == 2
MaxFaults == 1
MaxReinvocations == 1
NumTimestamps == 2
MaxUploadFailures == 2
MaxPublishFailures == 2
MaxLastJob == 3

Runs == 1..NumRuns
Datasets == {"aqua", "terra"}

\* the dataset argument of each run (sys.argv[8]); runs alternate datasets
DatasetOf(r) == IF r % 2 = 1 THEN "aqua" ELSE "terra"

(***************************************************************************)
(* Parameter Store values are strings.  A counter value is modelled as the *)
(* sequence of its decimal digits; NoParam stands for a name that has no   *)
(* parameter.  The flag is "True", "False" or "Absent".                    *)
(***************************************************************************)
NoParam == <<-1>>

RECURSIVE str(_)
\* Python str(n) of a non-negative int: its decimal digits
str(n) == IF n < 10 THEN <<n>> ELSE Append(str(n \div 10), n % 10)

RECURSIVE int(_)
\* Python int(s) of a string of decimal digits
int(s) == IF Len(s) = 1 THEN s[1]
          ELSE 10 * int(SubSeq(s, 1, Len(s) - 1)) + s[Len(s)]

VARIABLES
    \* ---- Parameter Store ----
    flag,             \* {prefix}-idl-retrieving-license
    shared_lic,       \* {prefix}-idl-{dataset}, per dataset
    shared_floating,  \* {prefix}-idl-floating
    priv_lic,         \* {prefix}-idl-{dataset}-{unique_id}-lic, per run
    priv_floating,    \* {prefix}-idl-{dataset}-{unique_id}-floating, per run
    \* ---- each process running return_licenses ----
    pc,               \* position in return_licenses
    dataset_lic,      \* local of return_licenses
    floating_lic,     \* local of return_licenses
    retrieving_lic,   \* local of return_licenses
    current_floating, \* local of write_licenses
    exit_code,        \* 1 after exit(1), 0 while none
    \* ---- history (not program state) ----
    wrote,            \* store writes made by the current invocation
    failed_at,        \* pc at which the run got a ClientError, else "none"
    absent_at_start,  \* a private key was absent when the invocation began
    returned,         \* invocations of the identity that completed
    nfail,            \* store failures injected so far
    reinvocations,    \* calls of return_licenses after the first of a run
    init0             \* the store as it was initially

lvars == <<flag, shared_lic, shared_floating, priv_lic, priv_floating, pc,
           dataset_lic, floating_lic, retrieving_lic, current_floating,
           exit_code, wrote, failed_at, absent_at_start, returned,
           nfail, reinvocations, init0>>

VARIABLES
    \* ---- inputs of one run of Uploader.upload ----
    timestamps,       \* json.load(jf)[self.job_index]
    fs,               \* the paths that are files under data_dir
    ingest,           \* argument of upload
    \* ---- the run ----
    upc,              \* position in upload
    l2p_list,         \* local of upload
    missing_checksum, \* errors["missing_checksum"]
    l2p_s3,           \* local of upload_l2p_s3, then of upload
    error_list,       \* local of upload_l2p_s3, then errors["upload"]
    publish_errors,   \* local of publish_cnm_message, then errors["publish"]
    i,                \* index of the for loop of upload_l2p_s3
    j,                \* index of the for loop of publish_cnm_message
    processed,        \* self.processed
    num_uploaded,     \* self.num_uploaded
    status,           \* exit status of the process, -1 while it runs
    \* ---- the services (history) ----
    s3_calls,         \* upload_file calls made, with their outcome
    sns_calls         \* publish calls made on the Cumulus topic, with outcome

VARIABLES
    \* ---- report_errors ----
    message,          \* local of report_errors
    reported,         \* report_errors has been entered (history)
    exit_by,          \* what ended the process (history)
    alert_calls       \* publish calls made on the alert topic, with outcome

rvars == <<message, reported, exit_by, alert_calls>>

uvars == <<timestamps, fs, ingest, upc, l2p_list, missing_checksum, l2p_s3,
           error_list, publish_errors, i, j, processed, num_uploaded, status,
           s3_calls, sns_calls, rvars>>

VARIABLES
    \* ---- the jobs of one batch running run_upload_restore.run_uploader ----
    last_job_index,   \* sys.argv[4], the same for every job of the batch
    jpc,              \* per job: position in run_uploader
    jexit             \* per job: the exception that ended the process

bvars == <<last_job_index, jpc, jexit>>

vars == <<lvars, uvars, bvars>>

(***************************************************************************)
(* Initial store                                                           *)
(***************************************************************************)
\* what the checkout step may have left for one run: a reservation with
\* both keys, or a checkout/return mismatch with a key missing
Reservations ==
    {[lic |-> str(1), floating |-> str(1)],
     [lic |-> str(2), floating |-> str(0)],
     [lic |-> NoParam, floating |-> str(1)],
     [lic |-> str(1), floating |-> NoParam]}

\* the shared pool: nothing left in it, or some licenses left in it
Pools == {[lic |-> str(0), floating |-> str(0)],
          [lic |-> str(3), floating |-> str(9)]}
FlagInit == {"False", "True", "Absent"}

LInit ==
    /\ flag \in FlagInit
    /\ \E pool \in Pools :
          /\ shared_lic = [ds \in Datasets |-> pool.lic]
          /\ shared_floating = pool.floating
    /\ \E res \in [Runs -> Reservations] :
          /\ priv_lic = [r \in Runs |-> res[r].lic]
          /\ priv_floating = [r \in Runs |-> res[r].floating]
    /\ pc = [r \in Runs |-> "get_lic"]
    /\ dataset_lic = [r \in Runs |-> NoParam]
    /\ floating_lic = [r \in Runs |-> NoParam]
    /\ retrieving_lic = [r \in Runs |-> "Absent"]
    /\ current_floating = [r \in Runs |-> NoParam]
    /\ exit_code = [r \in Runs |-> 0]
    /\ wrote = [r \in Runs |-> {}]
    /\ failed_at = [r \in Runs |-> "none"]
    /\ absent_at_start = [r \in Runs |->
            priv_lic[r] = NoParam \/ priv_floating[r] = NoParam]
    /\ returned = [r \in Runs |-> 0]
    /\ nfail = 0
    /\ reinvocations = 0
    /\ init0 = [flag |-> flag, lic |-> shared_lic, floating |-> shared_floating,
                priv_lic |-> priv_lic, priv_floating |-> priv_floating]

(***************************************************************************)
(* return_licenses                                                         *)
(***************************************************************************)
\* variant: the handler logs the error and lets the run carry on where it was
OnClientErrorRetry(r) ==
    /\ pc' = pc
    /\ exit_code' = exit_code
    /\ failed_at' = [failed_at EXCEPT ![r] = pc[r]]

\* except botocore.exceptions.ClientError: log, exit(1)
OnClientError(r) ==
    /\ pc' = [pc EXCEPT ![r] = "failed"]
    /\ exit_code' = [exit_code EXCEPT ![r] = 1]
    /\ failed_at' = [failed_at EXCEPT ![r] = pc[r]]

\* variant: a missing private dataset count is read as "0"
GetDatasetLicDefault(r) ==
    /\ UNCHANGED <<uvars, bvars>>
    /\ pc[r] = "get_lic"
    /\ dataset_lic' = [dataset_lic EXCEPT ![r] =
            IF priv_lic[r] = NoParam THEN str(0) ELSE priv_lic[r]]
    /\ pc' = [pc EXCEPT ![r] = "get_floating"]
    /\ UNCHANGED <<flag, shared_lic, shared_floating, priv_lic, priv_floating,
                   floating_lic, retrieving_lic, current_floating, exit_code,
                   wrote, failed_at, absent_at_start, returned, nfail,
                   reinvocations, init0>>

\* ssm.get_parameter of the private dataset count (ParameterNotFound is a
\* ClientError)
GetDatasetLic(r) ==
    /\ UNCHANGED <<uvars, bvars>>
    /\ pc[r] = "get_lic"
    /\ IF priv_lic[r] = NoParam
       THEN OnClientError(r) /\ UNCHANGED dataset_lic
       ELSE /\ dataset_lic' = [dataset_lic EXCEPT ![r] = priv_lic[r]]
            /\ pc' = [pc EXCEPT ![r] = "get_floating"]
            /\ UNCHANGED <<exit_code, failed_at>>
    /\ UNCHANGED <<flag, shared_lic, shared_floating, priv_lic, priv_floating,
                   floating_lic, retrieving_lic, current_floating, wrote,
                   absent_at_start, returned, nfail, reinvocations, init0>>

\* ssm.get_parameter of the private floating count
GetFloatingLic(r) ==
    /\ UNCHANGED <<uvars, bvars>>
    /\ pc[r] = "get_floating"
    /\ IF priv_floating[r] = NoParam
       THEN OnClientError(r) /\ UNCHANGED floating_lic
       ELSE /\ floating_lic' = [floating_lic EXCEPT ![r] = priv_floating[r]]
            /\ pc' = [pc EXCEPT ![r] = "get_flag"]
            /\ UNCHANGED <<exit_code, failed_at>>
    /\ UNCHANGED <<flag, shared_lic, shared_floating, priv_lic, priv_floating,
                   dataset_lic, retrieving_lic, current_floating, wrote,
                   absent_at_start, returned, nfail, reinvocations, init0>>

\* variant: a flag that has no parameter is taken as not held
ReadFlagAbsentOk(r) ==
    /\ UNCHANGED <<uvars, bvars>>
    /\ retrieving_lic' = [retrieving_lic EXCEPT ![r] = flag]
    /\ pc' = [pc EXCEPT ![r] = IF flag = "True" THEN "poll" ELSE "hold"]
    /\ UNCHANGED <<flag, shared_lic, shared_floating, priv_lic, priv_floating,
                   dataset_lic, floating_lic, current_floating, exit_code,
                   wrote, failed_at, absent_at_start, returned, nfail,
                   reinvocations, init0>>

\* one read of the retrieving-license flag and the loop test that follows
ReadFlag(r) ==
    /\ UNCHANGED <<uvars, bvars>>
    /\ IF flag = "Absent"
       THEN OnClientError(r) /\ UNCHANGED retrieving_lic
       ELSE /\ retrieving_lic' = [retrieving_lic EXCEPT ![r] = flag]
            /\ pc' = [pc EXCEPT ![r] = IF flag = "True" THEN "poll" ELSE "hold"]
            /\ UNCHANGED <<exit_code, failed_at>>
    /\ UNCHANGED <<flag, shared_lic, shared_floating, priv_lic, priv_floating,
                   dataset_lic, floating_lic, current_floating, wrote,
                   absent_at_start, returned, nfail, reinvocations, init0>>

\* the read before the loop
GetRetrievingLic(r) == pc[r] = "get_flag" /\ ReadFlag(r)

\* variant: the loop sleeps once and goes on without reading again
PollRetrievingLicOnce(r) ==
    /\ UNCHANGED <<uvars, bvars>>
    /\ pc[r] = "poll"
    /\ pc' = [pc EXCEPT ![r] = "hold"]
    /\ UNCHANGED <<flag, shared_lic, shared_floating, priv_lic, priv_floating,
                   dataset_lic, floating_lic, retrieving_lic, current_floating,
                   exit_code, wrote, failed_at, absent_at_start, returned,
                   nfail, reinvocations, init0>>

\* the loop body: sleep, read again
PollRetrievingLic(r) == pc[r] = "poll" /\ ReadFlag(r)

\* variant: the put writes "True" whatever on_hold is
hold_license_stuck(r, on_hold) ==
    /\ flag' = "True"
    /\ wrote' = [wrote EXCEPT ![r] = @ \cup {"flag:" \o on_hold}]

\* hold_license: put the flag
hold_license(r, on_hold) ==
    /\ flag' = on_hold
    /\ wrote' = [wrote EXCEPT ![r] = @ \cup {"flag:" \o on_hold}]

\* self.hold_license(ssm, "True")
PlaceHold(r) ==
    /\ UNCHANGED <<uvars, bvars>>
    /\ pc[r] = "hold"
    /\ hold_license(r, "True")
    /\ pc' = [pc EXCEPT ![r] = "write_dataset"]
    /\ UNCHANGED <<shared_lic, shared_floating, priv_lic, priv_floating,
                   dataset_lic, floating_lic, retrieving_lic, current_floating,
                   exit_code, absent_at_start, returned, nfail,
                   reinvocations, failed_at, init0>>

\* variant: the put goes to the counter of every dataset
WriteDatasetEvery(r) ==
    /\ UNCHANGED <<uvars, bvars>>
    /\ pc[r] = "write_dataset"
    /\ shared_lic' = [ds \in Datasets |-> dataset_lic[r]]
    /\ wrote' = [wrote EXCEPT ![r] = @ \cup {"dataset"}]
    /\ pc' = [pc EXCEPT ![r] = "read_floating"]
    /\ UNCHANGED <<flag, shared_floating, priv_lic, priv_floating,
                   dataset_lic, floating_lic, retrieving_lic, current_floating,
                   exit_code, absent_at_start, returned, nfail,
                   reinvocations, failed_at, init0>>

\* write_licenses: put of the shared dataset counter, Value=str(dataset_lic)
\* (dataset_lic is already a string)
WriteDataset(r) ==
    /\ UNCHANGED <<uvars, bvars>>
    /\ pc[r] = "write_dataset"
    /\ shared_lic' = [shared_lic EXCEPT ![DatasetOf(r)] = dataset_lic[r]]
    /\ wrote' = [wrote EXCEPT ![r] = @ \cup {"dataset"}]
    /\ pc' = [pc EXCEPT ![r] = "read_floating"]
    /\ UNCHANGED <<flag, shared_floating, priv_lic, priv_floating,
                   dataset_lic, floating_lic, retrieving_lic, current_floating,
                   exit_code, absent_at_start, returned, nfail,
                   reinvocations, failed_at, init0>>

\* write_licenses: get of the shared floating counter
ReadFloating(r) ==
    /\ UNCHANGED <<uvars, bvars>>
    /\ pc[r] = "read_floating"
    /\ IF shared_floating = NoParam
       THEN OnClientError(r) /\ UNCHANGED current_floating
       ELSE /\ current_floating' = [current_floating EXCEPT ![r] = shared_floating]
            /\ pc' = [pc EXCEPT ![r] = "write_floating"]
            /\ UNCHANGED <<exit_code, failed_at>>
    /\ UNCHANGED <<flag, shared_lic, shared_floating, priv_lic, priv_floating,
                   dataset_lic, floating_lic, retrieving_lic, wrote,
                   absent_at_start, returned, nfail, reinvocations, init0>>

\* variant: the floating counter is overwritten like the dataset counter
floating_total_overwrite(r) == int(floating_lic[r])

\* floating_total = int(floating_lic) + int(current_floating)
floating_total(r) == int(floating_lic[r]) + int(current_floating[r])

\* write_licenses: put of the shared floating counter
WriteFloating(r) ==
    /\ UNCHANGED <<uvars, bvars>>
    /\ pc[r] = "write_floating"
    /\ shared_floating' = str(floating_total(r))
    /\ wrote' = [wrote EXCEPT ![r] = @ \cup {"floating"}]
    /\ pc' = [pc EXCEPT ![r] = "release"]
    /\ UNCHANGED <<flag, shared_lic, priv_lic, priv_floating,
                   dataset_lic, floating_lic, retrieving_lic, current_floating,
                   exit_code, absent_at_start, returned, nfail,
                   reinvocations, failed_at, init0>>

\* variant: the private keys are deleted where the hold is to be released
ReleaseHoldDeleteFirst(r) ==
    /\ UNCHANGED <<uvars, bvars>>
    /\ pc[r] = "release"
    /\ priv_lic' = [priv_lic EXCEPT ![r] = NoParam]
    /\ priv_floating' = [priv_floating EXCEPT ![r] = NoParam]
    /\ wrote' = [wrote EXCEPT ![r] = @ \cup {"delete"}]
    /\ pc' = [pc EXCEPT ![r] = "delete"]
    /\ UNCHANGED <<flag, shared_lic, shared_floating,
                   dataset_lic, floating_lic, retrieving_lic, current_floating,
                   exit_code, absent_at_start, returned, nfail,
                   reinvocations, failed_at, init0>>

\* self.hold_license(ssm, "False")
ReleaseHold(r) ==
    /\ UNCHANGED <<uvars, bvars>>
    /\ pc[r] = "release"
    /\ hold_license(r, "False")
    /\ pc' = [pc EXCEPT ![r] = "delete"]
    /\ UNCHANGED <<shared_lic, shared_floating, priv_lic, priv_floating,
                   dataset_lic, floating_lic, retrieving_lic, current_floating,
                   exit_code, absent_at_start, returned, nfail,
                   reinvocations, failed_at, init0>>

\* variant: the private keys are left in the store
DeleteParametersKeep(r) ==
    /\ UNCHANGED <<uvars, bvars>>
    /\ pc[r] = "delete"
    /\ wrote' = [wrote EXCEPT ![r] = @ \cup {"delete"}]
    /\ pc' = [pc EXCEPT ![r] = "done"]
    /\ returned' = [returned EXCEPT ![r] = @ + 1]
    /\ UNCHANGED <<flag, shared_lic, shared_floating, priv_lic, priv_floating,
                   dataset_lic, floating_lic, retrieving_lic, current_floating,
                   exit_code, failed_at, absent_at_start, nfail, reinvocations,
                   init0>>

\* ssm.delete_parameters of the two private keys; return_licenses returns
DeleteParameters(r) ==
    /\ UNCHANGED <<uvars, bvars>>
    /\ pc[r] = "delete"
    /\ priv_lic' = [priv_lic EXCEPT ![r] = NoParam]
    /\ priv_floating' = [priv_floating EXCEPT ![r] = NoParam]
    /\ wrote' = [wrote EXCEPT ![r] = @ \cup {"delete"}]
    /\ pc' = [pc EXCEPT ![r] = "done"]
    /\ returned' = [returned EXCEPT ![r] = @ + 1]
    /\ UNCHANGED <<flag, shared_lic, shared_floating,
                   dataset_lic, floating_lic, retrieving_lic, current_floating,
                   exit_code, failed_at, absent_at_start, nfail, reinvocations,
                   init0>>

\* the positions at which the next statement is an SSM call
SsmCalls == {"get_lic", "get_floating", "get_flag", "poll", "hold",
             "write_dataset", "read_floating", "write_floating", "release",
             "delete"}

\* the store is unreachable or rejects the call: the SSM call at pc[r]
\* raises ClientError and has no effect on the store
StoreFailure(r) ==
    /\ UNCHANGED <<uvars, bvars>>
    /\ pc[r] \in SsmCalls
    /\ nfail < MaxFaults
    /\ nfail' = nfail + 1
    /\ OnClientError(r)
    /\ UNCHANGED <<flag, shared_lic, shared_floating, priv_lic, priv_floating,
                   dataset_lic, floating_lic, retrieving_lic, current_floating,
                   wrote, absent_at_start, returned, reinvocations, init0>>

\* return_licenses is called a second time for the same (prefix, dataset,
\* unique_id) by a new process, after the first call has returned
Reinvoke(r) ==
    /\ UNCHANGED <<uvars, bvars>>
    /\ pc[r] = "done"
    /\ reinvocations < MaxReinvocations
    /\ reinvocations' = reinvocations + 1
    /\ pc' = [pc EXCEPT ![r] = "get_lic"]
    /\ dataset_lic' = [dataset_lic EXCEPT ![r] = NoParam]
    /\ floating_lic' = [floating_lic EXCEPT ![r] = NoParam]
    /\ retrieving_lic' = [retrieving_lic EXCEPT ![r] = "Absent"]
    /\ current_floating' = [current_floating EXCEPT ![r] = NoParam]
    /\ exit_code' = [exit_code EXCEPT ![r] = 0]
    /\ wrote' = [wrote EXCEPT ![r] = {}]
    /\ absent_at_start' = [absent_at_start EXCEPT ![r] =
            priv_lic[r] = NoParam \/ priv_floating[r] = NoParam]
    /\ UNCHANGED <<flag, shared_lic, shared_floating, priv_lic, priv_floating,
                   returned, nfail, failed_at, init0>>

(***************************************************************************)
(* Uploader.  A string is modelled as the sequence of the pieces it is     *)
(* built from; ".md5" is the only piece that contains "md5", and "/"       *)
(* occurs only as a piece of its own.  A path is modelled by its file      *)
(* name: the directory is a function of the timestamp in the name.         *)
(***************************************************************************)
\* sys.argv[6] of run_uploader
dataset == "aqua"

\* sys.argv[1] of run_uploader
prefix == "podaac-sit-generate"

\* DATA_DICT[dataset]["filename"]
filename_template ==
    [aqua  |-> <<"TS", "-JPL-L2P_GHRSST-SSTskin-MODIS_A", "-T-", "v02.0-fv01.0">>,
     terra |-> <<"TS", "-JPL-L2P_GHRSST-SSTskin-MODIS_T", "-T-", "v02.0-fv01.0">>,
     viirs |-> <<"TS", "-JPL-L2P_GHRSST-SSTskin-VIIRS_NPP", "-T-", "v02.0-fv01.0">>]

RECURSIVE replace(_, _, _)
\* Python s.replace(old, new), old one piece and new a string
replace(s, old, new) ==
    IF s = <<>> THEN <<>>
    ELSE (IF Head(s) = old THEN new ELSE <<Head(s)>>)
         \o replace(Tail(s), old, new)

\* Python sub in s, sub one piece
in(sub, s) == \E k \in DOMAIN s : s[k] = sub

\* the k-th timestamp of the input JSON, YYYYMMDDTHHMMSS
Timestamp(k) == <<"2023010" \o ToString(k), "T", "120000">>

\* file = dataset_dict['filename'].replace('TS', ts)
file_of(timestamp) ==
    replace(filename_template[dataset], "TS", replace(timestamp, "T", <<>>))

day_file_nc(timestamp) == replace(file_of(timestamp), "-T-", <<"-D-">>) \o <<".nc">>
night_file_nc(timestamp) == replace(file_of(timestamp), "-T-", <<"-N-">>) \o <<".nc">>

\* l2p_dir.joinpath(f"{day_file_nc}.md5")
checksum_of(nc) == nc \o <<".md5">>

\* what the processor may have left for one timestamp
LayoutNames == {"none", "day", "day+night", "day.nc", "day+night.nc",
                "day.md5+night"}

Layout(t, name) ==
    LET D == day_file_nc(t)
        N == night_file_nc(t)
    IN  CASE name = "none" -> {}
          [] name = "day" -> {D, checksum_of(D)}
          [] name = "day+night" -> {D, checksum_of(D), N, checksum_of(N)}
          [] name = "day.nc" -> {D}
          [] name = "day+night.nc" -> {D, checksum_of(D), N}
          [] name = "day.md5+night" -> {checksum_of(D), N, checksum_of(N)}

\* Path.is_file()
is_file(path) == path \in fs

\* variant: the sidecar is not looked for
check_variant_any_data(acc, nc) ==
    IF is_file(nc)
    THEN [acc EXCEPT !.l2p_list = @ \o <<nc, checksum_of(nc)>>]
    ELSE acc

\* one variant of one timestamp in load_efs_l2p, acc = [l2p_list, missing]
check_variant(acc, nc) ==
    IF is_file(nc)
    THEN IF is_file(checksum_of(nc))
         THEN [acc EXCEPT !.l2p_list = @ \o <<nc, checksum_of(nc)>>]
         ELSE [acc EXCEPT !.missing = Append(@, nc)]
    ELSE acc

RECURSIVE load_from(_, _)
\* the for loop of load_efs_l2p from the k-th timestamp on
load_from(k, acc) ==
    IF k > Len(timestamps) THEN acc
    ELSE load_from(k + 1,
            check_variant(check_variant(acc, day_file_nc(timestamps[k])),
                          night_file_nc(timestamps[k])))

\* load_efs_l2p
load_efs_l2p == load_from(1, [l2p_list |-> <<>>, missing |-> <<>>])

\* f"s3://{bucket}/{self.dataset}/{l2p.name}", bucket = f"{self.prefix}-l2p-granules"
s3_uri(l2p) ==
    <<"s3:", "/", "/", prefix, "-l2p-granules", "/", dataset, "/">> \o l2p

\* report_errors has not been called
RInit ==
    /\ message = <<>>
    /\ reported = FALSE
    /\ exit_by = "none"
    /\ alert_calls = <<>>

\* the Uploader object after construction, before upload is called
UStart ==
    /\ \E c \in [1..NumTimestamps -> LayoutNames] :
          fs = UNION {Layout(Timestamp(k), c[k]) : k \in 1..NumTimestamps}
    /\ ingest \in BOOLEAN
    /\ upc = "load"
    /\ l2p_list = <<>>
    /\ missing_checksum = <<>>
    /\ l2p_s3 = <<>>
    /\ error_list = <<>>
    /\ publish_errors = <<>>
    /\ i = 0
    /\ j = 0
    /\ processed = <<>>
    /\ num_uploaded = 0
    /\ status = -1
    /\ s3_calls = <<>>
    /\ sns_calls = <<>>
    /\ RInit

UInit ==
    /\ timestamps = [k \in 1..NumTimestamps |-> Timestamp(k)]
    /\ UStart

\* the lists json.load(jf)[job_index] may hold: any order, repeats, empty
TimestampLists ==
    UNION {[1..n -> {Timestamp(k) : k \in 1..NumTimestamps}] : n \in 0..NumTimestamps}

\* load_efs_l2p on any timestamp list
LocatorStart ==
    /\ timestamps \in TimestampLists
    /\ UStart

\* the upload run has not started (License specification)
UIdle ==
    /\ timestamps = <<>> /\ fs = {} /\ ingest = TRUE /\ upc = "idle"
    /\ l2p_list = <<>> /\ missing_checksum = <<>> /\ l2p_s3 = <<>>
    /\ error_list = <<>> /\ publish_errors = <<>> /\ i = 0 /\ j = 0
    /\ processed = <<>> /\ num_uploaded = 0 /\ status = -1
    /\ s3_calls = <<>> /\ sns_calls = <<>>
    /\ RInit

\* no return_licenses is running (Uploader specification)
LIdle ==
    /\ LInit
    /\ flag = "False"
    /\ shared_floating = str(0)
    /\ \A r \in Runs : priv_lic[r] = str(1) /\ priv_floating[r] = str(1)

\* l2p_list, errors["missing_checksum"] = self.load_efs_l2p(); an empty
\* l2p_list ends upload
LoadEfsL2p ==
    /\ UNCHANGED <<lvars, bvars, rvars>>
    /\ upc = "load"
    /\ l2p_list' = load_efs_l2p.l2p_list
    /\ missing_checksum' = load_efs_l2p.missing
    /\ IF Len(l2p_list') = 0
       THEN upc' = "returned" /\ i' = i
       ELSE upc' = "upload" /\ i' = 1
    /\ UNCHANGED <<timestamps, fs, ingest, l2p_s3, error_list, publish_errors,
                   j, processed, num_uploaded, status, s3_calls, sns_calls>>

\* upload_l2p_s3, one pass of the loop: upload_file returns
UploadFileOk ==
    /\ UNCHANGED <<lvars, bvars, rvars>>
    /\ upc = "upload" /\ i <= Len(l2p_list)
    /\ LET l2p == l2p_list[i] IN
          /\ s3_calls' = Append(s3_calls, [file |-> l2p, ok |-> TRUE])
          /\ l2p_s3' = Append(l2p_s3, s3_uri(l2p))
          /\ processed' = IF ~in(".md5", l2p) THEN Append(processed, l2p)
                          ELSE processed
    /\ i' = i + 1
    /\ UNCHANGED <<timestamps, fs, ingest, upc, l2p_list, missing_checksum,
                   error_list, publish_errors, j, num_uploaded, status,
                   sns_calls>>

\* variant: the first upload_file error ends the loop
UploadFileErrorAbort ==
    /\ UNCHANGED <<lvars, bvars, rvars>>
    /\ upc = "upload" /\ i <= Len(l2p_list)
    /\ Len(error_list) < MaxUploadFailures
    /\ s3_calls' = Append(s3_calls, [file |-> l2p_list[i], ok |-> FALSE])
    /\ error_list' = Append(error_list, l2p_list[i])
    /\ i' = Len(l2p_list) + 1
    /\ UNCHANGED <<timestamps, fs, ingest, upc, l2p_list, missing_checksum,
                   l2p_s3, publish_errors, j, processed, num_uploaded, status,
                   sns_calls>>

\* upload_l2p_s3, one pass of the loop: upload_file raises ClientError
UploadFileError ==
    /\ UNCHANGED <<lvars, bvars, rvars>>
    /\ upc = "upload" /\ i <= Len(l2p_list)
    /\ Len(error_list) < MaxUploadFailures
    /\ s3_calls' = Append(s3_calls, [file |-> l2p_list[i], ok |-> FALSE])
    /\ error_list' = Append(error_list, l2p_list[i])
    /\ i' = i + 1
    /\ UNCHANGED <<timestamps, fs, ingest, upc, l2p_list, missing_checksum,
                   l2p_s3, publish_errors, j, processed, num_uploaded, status,
                   sns_calls>>

\* count = len([l2p for l2p in l2p_s3 if "md5" not in l2p])
count == Len(SelectSeq(l2p_s3, LAMBDA l2p : ~in(".md5", l2p)))

\* upload_l2p_s3 returns; upload counts the granules and tests ingest
AfterUpload ==
    /\ UNCHANGED <<lvars, bvars, rvars>>
    /\ upc = "upload" /\ i > Len(l2p_list)
    /\ num_uploaded' = count
    /\ IF ingest
       THEN upc' = "publish" /\ j' = 1 /\ UNCHANGED publish_errors
       ELSE upc' = "count_errors" /\ publish_errors' = <<>> /\ j' = j
    /\ UNCHANGED <<timestamps, fs, ingest, l2p_list, missing_checksum, l2p_s3,
                   error_list, i, processed, status, s3_calls, sns_calls>>

\* variant: no URI is skipped
skip_nothing(l2p) == FALSE

\* if ".md5" in l2p: continue
skip_md5(l2p) == in(".md5", l2p)

RECURSIVE split(_, _)
\* Python s.split(sep), sep one piece
split(s, sep) ==
    IF ~in(sep, s) THEN <<s>>
    ELSE LET k == CHOOSE n \in DOMAIN s :
                     s[n] = sep /\ \A m \in 1..(n - 1) : s[m] # sep
         IN  <<SubSeq(s, 1, k - 1)>> \o split(SubSeq(s, k + 1, Len(s)), sep)

\* Python seq[k], k >= 0
item(seq, k) == seq[k + 1]

\* create_message: the fields that name files
create_message(l2p) ==
    LET filename == item(split(item(split(l2p, "/"), 4), ".nc"), 0) IN
    [identifier |-> filename,
     files |-> << [uri |-> l2p, type |-> "data",
                   name |-> filename \o <<".nc">>],
                  [uri |-> l2p \o <<".md5">>, type |-> "metadata",
                   name |-> filename \o <<".nc", ".md5">>] >>]

\* publish_cnm_message, one pass of the loop over a checksum URI
PublishSkip ==
    /\ UNCHANGED <<lvars, bvars, rvars>>
    /\ upc = "publish" /\ j <= Len(l2p_s3)
    /\ skip_md5(l2p_s3[j])
    /\ j' = j + 1
    /\ UNCHANGED <<timestamps, fs, ingest, upc, l2p_list, missing_checksum,
                   l2p_s3, error_list, publish_errors, i, processed,
                   num_uploaded, status, s3_calls, sns_calls>>

\* publish_cnm_message, one pass of the loop: sns.publish returns
PublishOk ==
    /\ UNCHANGED <<lvars, bvars, rvars>>
    /\ upc = "publish" /\ j <= Len(l2p_s3)
    /\ ~skip_md5(l2p_s3[j])
    /\ sns_calls' = Append(sns_calls,
            [message |-> create_message(l2p_s3[j]), ok |-> TRUE])
    /\ j' = j + 1
    /\ UNCHANGED <<timestamps, fs, ingest, upc, l2p_list, missing_checksum,
                   l2p_s3, error_list, publish_errors, i, processed,
                   num_uploaded, status, s3_calls>>

\* variant: the first sns.publish error ends the loop
PublishErrorAbort ==
    /\ UNCHANGED <<lvars, bvars, rvars>>
    /\ upc = "publish" /\ j <= Len(l2p_s3)
    /\ ~skip_md5(l2p_s3[j])
    /\ Len(publish_errors) < MaxPublishFailures
    /\ LET msg == create_message(l2p_s3[j]) IN
          /\ sns_calls' = Append(sns_calls, [message |-> msg, ok |-> FALSE])
          /\ publish_errors' = Append(publish_errors, msg.identifier)
    /\ j' = Len(l2p_s3) + 1
    /\ UNCHANGED <<timestamps, fs, ingest, upc, l2p_list, missing_checksum,
                   l2p_s3, error_list, i, processed, num_uploaded, status,
                   s3_calls>>

\* publish_cnm_message, one pass of the loop: sns.publish raises ClientError
PublishError ==
    /\ UNCHANGED <<lvars, bvars, rvars>>
    /\ upc = "publish" /\ j <= Len(l2p_s3)
    /\ ~skip_md5(l2p_s3[j])
    /\ Len(publish_errors) < MaxPublishFailures
    /\ LET msg == create_message(l2p_s3[j]) IN
          /\ sns_calls' = Append(sns_calls, [message |-> msg, ok |-> FALSE])
          /\ publish_errors' = Append(publish_errors, msg.identifier)
    /\ j' = j + 1
    /\ UNCHANGED <<timestamps, fs, ingest, upc, l2p_list, missing_checksum,
                   l2p_s3, error_list, i, processed, num_uploaded, status,
                   s3_calls>>

\* publish_cnm_message returns
AfterPublish ==
    /\ UNCHANGED <<lvars, bvars, rvars>>
    /\ upc = "publish" /\ j > Len(l2p_s3)
    /\ upc' = "count_errors"
    /\ UNCHANGED <<timestamps, fs, ingest, l2p_list, missing_checksum, l2p_s3,
                   error_list, publish_errors, i, j, processed, num_uploaded,
                   status, s3_calls, sns_calls>>

error_count == Len(missing_checksum) + Len(error_list) + Len(publish_errors)

RECURSIVE join(_, _)
\* Python sep.join(list), sep one piece
join(sep, list) ==
    IF list = <<>> THEN <<>>
    ELSE IF Len(list) = 1 THEN list[1]
    ELSE list[1] \o <<sep>> \o join(sep, Tail(list))

\* what get_ecs_task_metadata may return: "" or the log group and stream
LogMetadata == {<<>>, <<"Log Group: ", "group", "\nLog Stream: ", "stream">>}

\* the message after "ERROR INFORMATION:" and the missing-checksum section
\* (lines 312-329)
message_missing(log_metadata) ==
    LET m1 == <<"Uploader AWS Batch job L2P granule failures for ", "now", ".">>
        m2 == m1 \o <<"\n\nJOB INFORMATION:\n", "Job Identifier: ", "job-id",
                      "\n", "Job Queue: ", "job-queue">>
        m3 == IF log_metadata # <<>> THEN m2 \o <<"\n\n">> \o log_metadata
              ELSE m2
        m4 == m3 \o <<"\n\nERROR INFORMATION:">>
        missing_errors == missing_checksum
    IN  IF Len(missing_errors) > 0
        THEN <<"\nThe following L2P granule files are missing checksums...\n">>
             \o join("\n", missing_errors)
        ELSE m4

\* the message that report_errors builds (lines 312-347)
report_message(log_metadata) ==
    LET m5 == message_missing(log_metadata)
        upload_errors == error_list
        m6 == IF Len(upload_errors) > 0
              THEN m5 \o <<"\nThe following L2P granule files failed to upload to S3 bucket...\n">>
                      \o join("\n", upload_errors)
              ELSE m5
        m7 == IF Len(publish_errors) > 0
              THEN m6 \o <<"\nThe following L2P granule NetCDF and checksum files failed to be published to the Cumulus Topic...\n">>
                      \o join("\n", publish_errors)
              ELSE m6
    IN  m7 \o <<"\n\nPlease follow these steps to diagnose the error: ", "url", "\n\n\n">>

\* if error_count > 0: get_ecs_task_metadata, then report_errors up to the
\* try block: the message is built
ReportErrors ==
    /\ UNCHANGED <<lvars, bvars>>
    /\ upc = "count_errors" /\ error_count > 0
    /\ \E log_metadata \in LogMetadata : message' = report_message(log_metadata)
    /\ reported' = TRUE
    /\ upc' = "list_topics"
    /\ UNCHANGED <<timestamps, fs, ingest, l2p_list, missing_checksum, l2p_s3,
                   error_list, publish_errors, i, j, processed, num_uploaded,
                   status, s3_calls, sns_calls, exit_by, alert_calls>>

\* the process ends with a non-zero status: sys.exit(1), or an exception
\* that nothing catches
Exit(by) ==
    /\ upc' = "exited"
    /\ status' = 1
    /\ exit_by' = by
    /\ UNCHANGED <<timestamps, fs, ingest, l2p_list, missing_checksum, l2p_s3,
                   error_list, publish_errors, i, j, processed, num_uploaded,
                   s3_calls, sns_calls, message, reported>>

\* sns.list_topics() returns and a topic ARN contains os.environ["TOPIC"]
ListTopicsMatch ==
    /\ UNCHANGED <<lvars, bvars>>
    /\ upc = "list_topics"
    /\ upc' = "alert"
    /\ UNCHANGED <<timestamps, fs, ingest, l2p_list, missing_checksum, l2p_s3,
                   error_list, publish_errors, i, j, processed, num_uploaded,
                   status, s3_calls, sns_calls, rvars>>

\* sns.list_topics() returns and no topic ARN matches: topic[0] raises
\* IndexError, which the except clause does not catch
ListTopicsNoMatch ==
    /\ UNCHANGED <<lvars, bvars>>
    /\ upc = "list_topics"
    /\ Exit("IndexError")
    /\ UNCHANGED alert_calls

\* sns.list_topics() raises ClientError: the handler reads topic, which is
\* not bound, and raises UnboundLocalError
ListTopicsError ==
    /\ UNCHANGED <<lvars, bvars>>
    /\ upc = "list_topics"
    /\ Exit("UnboundLocalError")
    /\ UNCHANGED alert_calls

\* variant: report_errors returns to upload after a successful publish
AlertPublishOkReturns ==
    /\ UNCHANGED <<lvars, bvars>>
    /\ upc = "alert"
    /\ alert_calls' = Append(alert_calls, [message |-> message, ok |-> TRUE])
    /\ upc' = "returned"
    /\ UNCHANGED <<timestamps, fs, ingest, l2p_list, missing_checksum, l2p_s3,
                   error_list, publish_errors, i, j, processed, num_uploaded,
                   status, s3_calls, sns_calls, message, reported, exit_by>>

\* sns.publish of the alert returns; sys.exit(1) at the end of report_errors
AlertPublishOk ==
    /\ UNCHANGED <<lvars, bvars>>
    /\ upc = "alert"
    /\ alert_calls' = Append(alert_calls, [message |-> message, ok |-> TRUE])
    /\ Exit("sys.exit")

\* sns.publish of the alert raises ClientError; sys.exit(1) in the handler
AlertPublishError ==
    /\ UNCHANGED <<lvars, bvars>>
    /\ upc = "alert"
    /\ alert_calls' = Append(alert_calls, [message |-> message, ok |-> FALSE])
    /\ Exit("sys.exit")

\* self.log_provenance(l2p_list); upload returns
LogProvenance ==
    /\ UNCHANGED <<lvars, bvars, rvars>>
    /\ upc = "count_errors" /\ error_count = 0
    /\ upc' = "returned"
    /\ UNCHANGED <<timestamps, fs, ingest, l2p_list, missing_checksum, l2p_s3,
                   error_list, publish_errors, i, j, processed, num_uploaded,
                   status, s3_calls, sns_calls>>

(***************************************************************************)
(* run_upload_restore.run_uploader, one process per job of the batch       *)
(***************************************************************************)

\* AWS_BATCH_JOB_ARRAY_INDEX of the jobs: 0..L in an array, unset (-1 at
\* line 56) for a single job
Jobs == IF last_job_index = -1 THEN {-1} ELSE 0..last_job_index

\* no job of run_upload_restore is running
BIdle ==
    /\ last_job_index = -1
    /\ jpc = [b \in Jobs |-> "idle"]
    /\ jexit = [b \in Jobs |-> "none"]

BInit ==
    /\ last_job_index \in -1..MaxLastJob
    /\ jpc = [b \in Jobs |-> "start"]
    /\ jexit = [b \in Jobs |-> "none"]

\* the condition of line 57
is_last_job(batch_job_index) ==
    last_job_index = -1 \/ last_job_index = batch_job_index

\* an uncaught exception ends the process with status 1
Raise(b, exception) ==
    /\ jpc' = [jpc EXCEPT ![b] = "exited"]
    /\ jexit' = [jexit EXCEPT ![b] = exception]
    /\ UNCHANGED last_job_index

\* Uploader(prefix, job_index, last_job_index, input_json, data_dir,
\* processing_type, dataset, logger): eight arguments for the eight
\* parameters of __init__, shifted by one from input_json on;
\* get_cross_account_id returns
ConstructUploader(b) ==
    /\ UNCHANGED <<lvars, uvars>>
    /\ b \in Jobs /\ jpc[b] = "start"
    /\ jpc' = [jpc EXCEPT ![b] = "constructed"]
    /\ UNCHANGED <<last_job_index, jexit>>

\* get_parameter raises ClientError in get_cross_account_id; the handler
\* calls self.logger.info on the dataset string bound to logger
ConstructUploaderError(b) ==
    /\ UNCHANGED <<lvars, uvars>>
    /\ b \in Jobs /\ jpc[b] = "start"
    /\ Raise(b, "AttributeError")

\* uploader.upload() without the required argument ingest
CallUpload(b) ==
    /\ UNCHANGED <<lvars, uvars>>
    /\ b \in Jobs /\ jpc[b] = "constructed"
    /\ Raise(b, "TypeError")

RestoreInit == LIdle /\ UIdle /\ BInit

RestoreNext ==
    \E b \in -1..MaxLastJob :
        \/ ConstructUploader(b)
        \/ ConstructUploaderError(b)
        \/ CallUpload(b)

RestoreSpec == RestoreInit /\ [][RestoreNext]_vars

UploadInit == LIdle /\ BIdle /\ UInit

UploadNext ==
    \/ LoadEfsL2p
    \/ UploadFileOk
    \/ UploadFileError
    \/ AfterUpload
    \/ PublishSkip
    \/ PublishOk
    \/ PublishError
    \/ AfterPublish
    \/ ReportErrors
    \/ ListTopicsMatch
    \/ ListTopicsNoMatch
    \/ ListTopicsError
    \/ AlertPublishOk
    \/ AlertPublishError
    \/ LogProvenance

UploadSpec == UploadInit /\ [][UploadNext]_vars

\* load_efs_l2p alone, as a function of the timestamp list and the filesystem
LocatorInit == LIdle /\ BIdle /\ LocatorStart

LocatorNext == LoadEfsL2p

LocatorSpec == LocatorInit /\ [][LocatorNext]_vars

Init == LInit /\ UIdle /\ BIdle

Next ==
    \E r \in Runs :
        \/ GetDatasetLic(r)
        \/ GetFloatingLic(r)
        \/ GetRetrievingLic(r)
        \/ PollRetrievingLic(r)
        \/ PlaceHold(r)
        \/ WriteDataset(r)
        \/ ReadFloating(r)
        \/ WriteFloating(r)
        \/ ReleaseHold(r)
        \/ DeleteParameters(r)
        \/ StoreFailure(r)
        \/ Reinvoke(r)

Spec == Init /\ [][Next]_vars

\* every run has a reservation with both keys, the flag is "False", the store
\* answers every call and return_licenses is called once per run
LiveInit ==
    /\ Init
    /\ flag = "False"
    /\ \A r \in Runs : ~absent_at_start[r]

\* the next statement of run r
RunStep(r) ==
    \/ GetDatasetLic(r)
    \/ GetFloatingLic(r)
    \/ GetRetrievingLic(r)
    \/ PollRetrievingLic(r)
    \/ PlaceHold(r)
    \/ WriteDataset(r)
    \/ ReadFloating(r)
    \/ WriteFloating(r)
    \/ ReleaseHold(r)
    \/ DeleteParameters(r)

LiveNext == \E r \in Runs : RunStep(r)

\* each run is a process of its own that keeps executing: the batch job runs
\* its next statement, and time.sleep(3) in the loop returns
LiveSpec ==
    LiveInit /\ [][LiveNext]_vars /\ \A r \in Runs : WF_vars(RunStep(r))

(***************************************************************************)
(* Properties of return_licenses                                           *)
(***************************************************************************)
\* the positions between a run's own put of "True" and its own put of "False"
Critical == {"write_dataset", "read_floating", "write_floating", "release"}

Holders == {r \in Runs : pc[r] \in Critical}

\* no other run has taken a step and no call was repeated
Alone(r) == reinvocations = 0 /\ \A s \in Runs \ {r} : pc[s] = "get_lic"

\* value of a counter parameter, 0 for a name without parameter
Count(v) == IF v = NoParam THEN 0 ELSE int(v)

RECURSIVE SumOver(_, _)
SumOver(f, S) ==
    IF S = {} THEN 0
    ELSE LET x == CHOOSE y \in S : TRUE IN Count(f[x]) + SumOver(f, S \ {x})

\* shared counters plus the reservations whose private keys exist
PoolTotal(lic, floating, plic, pfloating) ==
    SumOver(lic, Datasets) + Count(floating)
    + SumOver(plic, Runs) + SumOver(pfloating, Runs)

\* C1: at most one run at a time is between its own write of "True" to the
\* retrieving-license flag and its own write of "False".
C1_MutualExclusion == Cardinality(Holders) <= 1

\* C2: without store failures, the shared dataset counters plus the shared
\* floating counter plus the counts of all reservations whose private keys
\* exist always equal their initial sum.
C2_Conservation ==
    nfail = 0 =>
        PoolTotal(shared_lic, shared_floating, priv_lic, priv_floating)
        = PoolTotal(init0.lic, init0.floating, init0.priv_lic,
                    init0.priv_floating)

C4_HoldReleased ==
    \A r \in Runs :
        (pc[r] \in {"done", "failed"} /\ "flag:True" \in wrote[r])
            => "flag:False" \in wrote[r]

\* C5: a run that starts with one of its private keys absent terminates with
\* exit code 1 from one of the two private reads and writes nothing; run
\* alone, it leaves the flag, the shared counters and the private keys as
\* they were.
C5_AbsentKeyFatal ==
    \A r \in Runs :
        absent_at_start[r] =>
            /\ pc[r] \in {"get_lic", "get_floating", "failed"}
            /\ wrote[r] = {}
            /\ pc[r] = "failed" =>
                 exit_code[r] = 1 /\ failed_at[r] \in {"get_lic", "get_floating"}
            /\ Alone(r) =>
                 /\ flag = init0.flag
                 /\ shared_lic = init0.lic
                 /\ shared_floating = init0.floating
                 /\ priv_lic = init0.priv_lic
                 /\ priv_floating = init0.priv_floating

\* a first call whose floating key was absent has exited: its dataset key
\* is still there
C5_Witness ==
    \E r \in Runs :
        /\ absent_at_start[r] /\ reinvocations = 0 /\ nfail = 0
        /\ pc[r] = "failed" /\ failed_at[r] = "get_floating"
        /\ priv_lic[r] # NoParam

\* C6: after a first return_licenses of an identity has completed, a second
\* one terminates with exit code 1 at its first read and writes neither
\* shared counter: no identity completes twice.
C6_SecondReturnFails ==
    \A r \in Runs :
        /\ returned[r] <= 1
        /\ (returned[r] = 1 /\ pc[r] # "done") =>
              /\ pc[r] \in {"get_lic", "failed"}
              /\ wrote[r] = {}
              /\ pc[r] = "failed" => exit_code[r] = 1

\* the second call of an identity has exited
C6_Witness ==
    \E r \in Runs :
        returned[r] = 1 /\ pc[r] = "failed" /\ failed_at[r] = "get_lic"

\* a step of run r that is not an injected store failure
StepOf(r) == pc'[r] # pc[r] /\ nfail' = nfail

\* C7 as stated: reading the flag as "False" or as absent, the run goes on
\* to write "True".
C7_FalseOrAbsentAcquires ==
    [][\A r \in Runs :
          (pc[r] \in {"get_flag", "poll"} /\ flag \in {"False", "Absent"}
           /\ StepOf(r)) => pc'[r] = "hold"]_vars

\* C7 amended: reading the flag as "False" the run goes on to write "True"
\* and then to the counter update; reading "True" it waits; reading a flag
\* that is absent it terminates with exit code 1 and the flag is not written.
C7_Acquire ==
    [][\A r \in Runs :
          /\ (pc[r] \in {"get_flag", "poll"} /\ StepOf(r)) =>
                /\ flag' = flag
                /\ flag = "False" => pc'[r] = "hold"
                /\ flag = "True" => pc'[r] = "poll"
                /\ flag = "Absent" => pc'[r] = "failed" /\ exit_code'[r] = 1
          /\ (pc[r] = "hold" /\ StepOf(r)) =>
                flag' = "True" /\ pc'[r] = "write_dataset"]_vars

\* a run whose private keys were read found no flag and has exited
C7_Witness ==
    \E r \in Runs :
        /\ pc[r] = "failed" /\ failed_at[r] = "get_flag"
        /\ flag = "Absent" /\ nfail = 0 /\ wrote[r] = {}

\* C8: a store failure on a read of the flag, before or inside the polling
\* loop, ends the run with exit code 1; it is at no position from which the
\* read could be made again.
C8_FlagReadFailureFatal ==
    \A r \in Runs :
        failed_at[r] \in {"get_flag", "poll"} =>
            pc[r] = "failed" /\ exit_code[r] = 1

\* a run that was polling a held flag got a store failure
C8_Witness ==
    \E r \in Runs :
        /\ failed_at[r] = "poll" /\ retrieving_lic[r] = "True"
        /\ flag = "True" /\ nfail = 1

(***************************************************************************)
(* Properties of Uploader.upload                                           *)
(***************************************************************************)
\* the files of the upload_file calls with outcome ok, in call order
CallFiles(ok) ==
    LET sel == SelectSeq(s3_calls, LAMBDA c : c.ok = ok)
    IN  [k \in DOMAIN sel |-> sel[k].file]

\* upload_l2p_s3 has returned
Uploaded == upc \in {"publish", "count_errors", "exited"}
            \/ (upc = "returned" /\ l2p_list # <<>>)

\* C9: upload_l2p_s3 calls upload_file once for every file of l2p_list, in
\* order, whatever calls fail; it returns the URIs of the files whose call
\* succeeded and the paths of the files whose call failed, each in input
\* order.
C9_UploadAll ==
    /\ [k \in DOMAIN s3_calls |-> s3_calls[k].file]
         = SubSeq(l2p_list, 1, Len(s3_calls))
    /\ l2p_s3 = [k \in DOMAIN CallFiles(TRUE) |-> s3_uri(CallFiles(TRUE)[k])]
    /\ error_list = CallFiles(FALSE)
    /\ Uploaded => Len(s3_calls) = Len(l2p_list)

\* four files or more were tried, two failed, and a failed call was followed
\* by a call that succeeded
C9_Witness ==
    /\ Uploaded
    /\ Len(l2p_list) >= 4
    /\ Len(error_list) = 2
    /\ \E k \in 1..(Len(s3_calls) - 1) : ~s3_calls[k].ok /\ s3_calls[k + 1].ok

\* C10: every message published to the provider-input topic has as subject
\* a data file (.nc) whose upload_file call succeeded in this run, which is
\* neither in the upload-failed list nor in the missing-checksum list.
C10_PublishedOnlyUploadedData ==
    \A k \in DOMAIN sns_calls :
        sns_calls[k].ok =>
            \E n \in DOMAIN s3_calls :
                LET f == s3_calls[n].file IN
                /\ s3_calls[n].ok
                /\ s3_uri(f) = sns_calls[k].message.files[1].uri
                /\ f = sns_calls[k].message.identifier \o <<".nc">>
                /\ f[Len(f)] = ".nc"
                /\ ~\E m \in DOMAIN error_list : error_list[m] = f
                /\ ~\E m \in DOMAIN missing_checksum : missing_checksum[m] = f

\* a message was published in a run that also has a data file without
\* sidecar, a data file whose upload failed and a sidecar that was uploaded
C10_Witness ==
    /\ upc = "count_errors"
    /\ \E k \in DOMAIN sns_calls : sns_calls[k].ok
    /\ missing_checksum # <<>>
    /\ \E n \in DOMAIN s3_calls :
          ~s3_calls[n].ok /\ s3_calls[n].file[Len(s3_calls[n].file)] = ".nc"
    /\ \E n \in DOMAIN s3_calls :
          s3_calls[n].ok /\ s3_calls[n].file[Len(s3_calls[n].file)] = ".md5"

\* the upload_file call on file f returned
UploadedOk(f) == \E n \in DOMAIN s3_calls : s3_calls[n].ok /\ s3_calls[n].file = f

\* C11: a message is published for a granule only when the upload of its
\* data file and the upload of its checksum sidecar both succeeded in this
\* run, and at most one message is published per granule.
C11_PublishedOnlyForPairs ==
    /\ \A k \in DOMAIN sns_calls :
          sns_calls[k].ok =>
              LET nc == sns_calls[k].message.identifier \o <<".nc">> IN
              UploadedOk(nc) /\ UploadedOk(checksum_of(nc))
    /\ \A k, m \in DOMAIN sns_calls :
          (sns_calls[k].ok /\ sns_calls[m].ok
           /\ sns_calls[k].message.identifier = sns_calls[m].message.identifier)
             => k = m

\* the URIs of l2p_s3 that are data files, in order
DataUris == SelectSeq(l2p_s3, LAMBDA u : u[Len(u)] = ".nc")

\* publish_cnm_message has returned
Published == ingest /\ (upc \in {"count_errors", "exited"}
                        \/ (upc = "returned" /\ l2p_list # <<>>))

\* C12: publish_cnm_message makes one publish call for every data file URI
\* of l2p_s3, in order, whatever calls fail, and returns the identifiers of
\* the messages whose call failed, in input order.
C12_PublishAll ==
    /\ [k \in DOMAIN sns_calls |-> sns_calls[k].message.files[1].uri]
         = SubSeq(DataUris, 1, Len(sns_calls))
    /\ \A k \in DOMAIN sns_calls :
          sns_calls[k].message.files[1].uri
            = s3_uri(sns_calls[k].message.identifier \o <<".nc">>)
    /\ LET failed == SelectSeq(sns_calls, LAMBDA c : ~c.ok)
       IN  publish_errors = [k \in DOMAIN failed |-> failed[k].message.identifier]
    /\ Published => Len(sns_calls) = Len(DataUris)

\* three data files or more were published for, two calls failed, and a
\* failed call was followed by a call that succeeded
C12_Witness ==
    /\ Published
    /\ Len(DataUris) >= 3
    /\ Len(publish_errors) = 2
    /\ \E k \in 1..(Len(sns_calls) - 1) : ~sns_calls[k].ok /\ sns_calls[k + 1].ok

\* the process has ended or upload has returned
Terminated == upc \in {"returned", "exited"}

\* C13: report_errors is invoked if and only if one of the lists
\* missing-checksum, upload-failed, publish-failed is non-empty, also in a
\* run where the locator found no complete pair.
C13_ReportIffErrors ==
    /\ reported => error_count > 0
    /\ Terminated => (reported <=> error_count > 0)

\* C14: once report_errors is entered the run is inside report_errors or the
\* process has ended with status 1; upload never returns and provenance is
\* never logged.
C14_ReportNeverReturns ==
    reported =>
        /\ upc \in {"list_topics", "alert", "exited"}
        /\ upc = "exited" => status = 1 /\ exit_by # "none"
        /\ upc # "exited" => status = -1

\* report_errors found no topic matching the configured substring and the
\* process has ended
C14_Witness ==
    /\ reported /\ upc = "exited" /\ exit_by = "IndexError"
    /\ status = 1 /\ alert_calls = <<>>

\* msg holds the heading followed by one line per item
HasSection(msg, heading, items) ==
    \E k \in DOMAIN msg :
        /\ msg[k] = heading
        /\ SubSeq(msg, k + 1, k + Len(join("\n", items))) = join("\n", items)

\* C15: the alert message holds the job-information section and, for each
\* non-empty failure category, its heading followed by one line per item.
C15_AlertCumulative ==
    \A k \in DOMAIN alert_calls :
        LET msg == alert_calls[k].message IN
        /\ in("\n\nJOB INFORMATION:\n", msg)
        /\ in("\n\nERROR INFORMATION:", msg)
        /\ missing_checksum # <<>> =>
             HasSection(msg, "\nThe following L2P granule files are missing checksums...\n",
                        missing_checksum)
        /\ error_list # <<>> =>
             HasSection(msg, "\nThe following L2P granule files failed to upload to S3 bucket...\n",
                        error_list)
        /\ publish_errors # <<>> =>
             HasSection(msg, "\nThe following L2P granule NetCDF and checksum files failed to be published to the Cumulus Topic...\n",
                        publish_errors)

\* the variants load_efs_l2p looks for, in the order it looks for them
Variants ==
    [n \in 1..(2 * Len(timestamps)) |->
        IF n % 2 = 1 THEN day_file_nc(timestamps[(n + 1) \div 2])
                     ELSE night_file_nc(timestamps[n \div 2])]

\* each data file immediately followed by its sidecar
WithSidecars(s) ==
    [n \in 1..(2 * Len(s)) |->
        IF n % 2 = 1 THEN s[(n + 1) \div 2] ELSE checksum_of(s[n \div 2])]

Range(s) == {s[n] : n \in DOMAIN s}

\* C16: load_efs_l2p returns, in input order and day before night, the data
\* file and its sidecar of exactly the variants where both exist, and as
\* missing exactly the data files without sidecar; no path is in both lists
\* and a variant without data file is in neither.
C16_LocatorExact ==
    upc # "load" =>
        LET Complete(nc) == nc \in fs /\ checksum_of(nc) \in fs
            Lacking(nc) == nc \in fs /\ checksum_of(nc) \notin fs
        IN  /\ l2p_list = WithSidecars(SelectSeq(Variants, Complete))
            /\ missing_checksum = SelectSeq(Variants, Lacking)
            /\ Range(l2p_list) \cap Range(missing_checksum) = {}
            /\ \A n \in DOMAIN Variants :
                  Variants[n] \notin fs =>
                      /\ Variants[n] \notin Range(l2p_list) \cup Range(missing_checksum)
                      /\ checksum_of(Variants[n]) \notin Range(l2p_list)

\* a list in descending order whose files give found pairs, a data file
\* without sidecar and a sidecar without data file
C16_Witness ==
    /\ upc # "load"
    /\ Len(timestamps) = 2 /\ timestamps[1] = Timestamp(2) /\ timestamps[2] = Timestamp(1)
    /\ Len(l2p_list) >= 4 /\ missing_checksum # <<>>
    /\ \E n \in DOMAIN Variants :
          Variants[n] \notin fs /\ checksum_of(Variants[n]) \in fs

\* C17: with ingest false no message is published and the publish-failed
\* list stays empty; every located file is still uploaded, and missing
\* checksums and upload failures are still reported.
C17_NoIngestStillReports ==
    ~ingest =>
        /\ sns_calls = <<>>
        /\ publish_errors = <<>>
        /\ Terminated =>
              /\ Len(s3_calls) = Len(l2p_list)
              /\ (missing_checksum # <<>> \/ error_list # <<>>) => reported

\* run_uploader of job b got past line 59
InvokedReturn(b) == jpc[b] \in {"return_licenses", "end"}

\* C18: return_licenses is invoked only by the job whose batch index is
\* last_job_index or by a single job, and a single job whose Uploader was
\* constructed invokes it before its process ends.
C18_LastJobReturns ==
    \A b \in Jobs :
        /\ InvokedReturn(b) => is_last_job(b)
        /\ (last_job_index = -1 /\ jpc[b] = "exited" /\ jexit[b] # "AttributeError")
              => InvokedReturn(b)

\* C19: a run writes a shared counter only after it has read the flag with a
\* value other than "True" and then written "True" itself; a run whose reads
\* of the flag all returned "True" has written no shared counter and no flag.
C19_WritesOnlyUnderOwnHold ==
    \A r \in Runs :
        /\ wrote[r] \cap {"dataset", "floating"} # {} => "flag:True" \in wrote[r]
        /\ "flag:True" \in wrote[r] => retrieving_lic[r] = "False"
        /\ retrieving_lic[r] = "True" => wrote[r] = {}

\* one run has written the shared dataset counter under its hold while
\* another run, having read "True", waits without having written anything
C19_Witness ==
    \E r, q \in Runs :
        /\ r # q
        /\ {"flag:True", "dataset"} \subseteq wrote[r] /\ "flag:False" \notin wrote[r]
        /\ pc[q] = "poll" /\ retrieving_lic[q] = "True" /\ wrote[q] = {}

\* C20: the private keys of a run are deleted only after the run has written
\* both shared counters and written "False" to the flag; a run that ended
\* through a store failure before any delete of its keys leaves both keys in
\* the store with the values they had.
C20_DeleteLast ==
    \A r \in Runs :
        /\ "delete" \in wrote[r] =>
              {"flag:True", "dataset", "floating", "flag:False"} \subseteq wrote[r]
        /\ (pc[r] = "failed" /\ returned[r] = 0) =>
              /\ "delete" \notin wrote[r]
              /\ priv_lic[r] = init0.priv_lic[r]
              /\ priv_floating[r] = init0.priv_floating[r]
              /\ ~absent_at_start[r] => priv_lic[r] # NoParam /\ priv_floating[r] # NoParam

\* one run failed at the release of the hold, after both shared counters
\* were written, and its keys are in the store; another run has deleted its
\* keys
C20_Witness ==
    \E r, q \in Runs :
        /\ pc[r] = "failed" /\ failed_at[r] = "release"
        /\ {"dataset", "floating"} \subseteq wrote[r]
        /\ priv_lic[r] # NoParam /\ priv_floating[r] # NoParam
        /\ "delete" \in wrote[q]

\* every run has completed its one call of return_licenses without failure
AllReturned == nfail = 0 /\ reinvocations = 0 /\ \A r \in Runs : pc[r] = "done"

\* C21: without store failures, once every run has completed, the shared
\* floating counter is its initial value plus the floating counts of all
\* runs.
C21_NoLostFloatingReturn ==
    AllReturned =>
        shared_floating =
            str(int(init0.floating) + SumOver(init0.priv_floating, Runs))

\* C22: while some run is between its own write of "True" to the flag and
\* its own write of "False", the stored flag is "True".
C22_FlagHeldWhileUpdating == Holders # {} => flag = "True"

AllDone == \A r \in Runs : pc[r] = "done"

\* C23: with the flag initially "False", no store failure, one call per run
\* and weak fairness on every run's steps, every run eventually finishes
\* return_licenses, and the flag is "False" once all runs have finished.
C23_AllRunsFinish ==
    /\ \A r \in Runs : <>(pc[r] = "done")
    /\ [](AllDone => flag = "False")

\* every run has written the counters, released and deleted its keys, and
\* the flag is "False"
C23_Witness ==
    /\ AllDone /\ flag = "False"
    /\ \A r \in Runs :
          /\ {"flag:True", "dataset", "floating", "flag:False", "delete"} \subseteq wrote[r]
          /\ priv_lic[r] = NoParam /\ priv_floating[r] = NoParam

\* C24: a step of a run leaves the private keys of every other run and the
\* shared counter of every other dataset unchanged; of the store it changes
\* at most the flag, the counter of its own dataset, the floating counter
\* and its own two private keys.
C24_Frame ==
    [][\A r \in Runs :
          pc'[r] # pc[r] =>
              /\ \A q \in Runs \ {r} :
                    priv_lic'[q] = priv_lic[q] /\ priv_floating'[q] = priv_floating[q]
              /\ \A ds \in Datasets \ {DatasetOf(r)} :
                    shared_lic'[ds] = shared_lic[ds]]_vars

\* a run has returned and changed the counter of its dataset; the counter of
\* the other dataset and the keys of a run that has not started are as they
\* were
C24_Witness ==
    \E r \in Runs :
        /\ pc[r] = "done" /\ shared_lic[DatasetOf(r)] # init0.lic[DatasetOf(r)]
        /\ \A ds \in Datasets \ {DatasetOf(r)} :
              shared_lic[ds] = init0.lic[ds] /\ shared_lic[ds] # shared_lic[DatasetOf(r)]
        /\ \E q \in Runs \ {r} :
              /\ pc[q] = "get_lic"
              /\ priv_lic[q] = init0.priv_lic[q] /\ priv_lic[q] # NoParam
              /\ priv_floating[q] = init0.priv_floating[q] /\ priv_floating[q] # NoParam

TypeOK ==
    /\ flag \in {"True", "False", "Absent"}
    /\ \A r \in Runs : exit_code[r] \in {0, 1}
    /\ last_job_index \in -1..MaxLastJob
    /\ jpc \in [Jobs -> {"idle", "start", "constructed", "exited"}]
    /\ jexit \in [Jobs -> {"none", "AttributeError", "TypeError"}]
====
